---- MODULE Spec2Model ----
(***************************************************************************)
(* Model of the ninjabot event distribution and streaming subsystem:       *)
(*   - order.Feed (src/order/feed.go): Subscribe, Publish, Start and the   *)
(*     per-symbol dispatch goroutines;                                     *)
(*   - BinanceFuture.CandlesSubscription / AccountSubscription             *)
(*     (src/unnamed/part_000): the reconnect loop goroutine, the vendor    *)
(*     stream goroutine running the message and error handlers, and the    *)
(*     account stream's keep-alive goroutine;                              *)
(*   - Feed.SubWs (src/order/feed.go): the goroutine that reads the        *)
(*     account stream's channels and publishes into the feed;              *)
(*   - BinanceFuture.validate and the order-creating operations            *)
(*     (src/unnamed/part_000): CreateOrderLimit, CreateOrderMarket,        *)
(*     CreateOrderStop, TakeProfit and CreateOrderTrailingStop.            *)
(* Go channels are unbuffered: a send is a blocked sender (a pc value)     *)
(* that completes in the step in which a receiver takes the value.         *)
(***************************************************************************)
EXTENDS Integers, Sequences, FiniteSets, Bags, TLC

\* ------------------------------------------------------------------ bounds
MaxCalls == 5       \* calls of Feed.Subscribe, Feed.Start and Feed.Publish by the application alone
MaxInputs == 6      \* the same calls and the inputs of the stream, once SubWs runs the two together
MaxMsgs == 2        \* messages and error signals one run of the vendor streams produces
MaxAttempts == 6    \* consecutive backoff waits (ba.attempt is unbounded in the code)
MaxTicks == 1       \* firings of the keep-alive ticker
MaxOrders == 2      \* calls of the order-creating operations
MaxQty == 4         \* largest quantity an order is created with, in lots
MaxOverlap == 2     \* calls of Feed.Subscribe and Feed.Start in progress at the same time
MaxOverlaps == 1    \* calls of Feed.Subscribe and Feed.Start begun while another is in progress

Symbols == {"BTCUSDT", "ETHUSDT"}
Consumers == {"c1", "c2"}
OnlyNewFlags == {FALSE}

VARIABLES
    OrderFeeds,             \* Feed.OrderFeeds: symbol -> Data channel id (0: no entry)
    SubscriptionsBySymbol,  \* Feed.SubscriptionsBySymbol: symbol -> slice, the
                            \* array it points to and its length (arr 0: nil)
    backing,                \* array id -> its capacity (0: not allocated) and the
                            \* cells written so far
    chanSeq,                \* number of Data channels made so far
    subscribing,            \* the calls of Subscribe in progress: where each is
                            \* and the slice it holds
    subscribed,             \* number of calls of Subscribe made so far
    starting,               \* the calls of Start in progress: the keys each has
                            \* ranged over
    starts,                 \* number of calls of Start made so far
    overlaps,               \* number of calls begun while another was in progress
    subInfo,                \* symbol -> what happened to it so far: how many Start
                            \* and Publish calls had been made when its DataFeed
                            \* was first made (-1: not yet) and whether a Start
                            \* call was in progress then, the consumers passed to
                            \* Subscribe, the number of Subscribe calls that
                            \* returned, and whether two were in progress together
    startedWith,            \* symbol -> number of Subscribe calls on it that had
                            \* returned when the first Start call that spawned a
                            \* goroutine for it was made (-1: none yet)
    waiting,                \* symbol -> the dispatch goroutines of that pair parked
                            \* at the receive, each by the channel it was given
    running,                \* the dispatch goroutines inside the inner loop
    sending,                \* the Publish calls blocked in the send
    calls,                  \* the orders Publish was called with, in call order
    handoff,                \* channel id -> ids of the orders received from it, in order
    invoked                 \* symbol -> the consumer invocations made by the
                            \* dispatch goroutines of that pair, in order

registryVars == <<OrderFeeds, SubscriptionsBySymbol, backing, chanSeq>>
callVars == <<subscribing, subscribed, starting, starts, overlaps, subInfo, startedWith>>
taskVars == <<waiting, running, sending, calls, handoff, invoked>>
feedVars == <<registryVars, callVars, taskVars>>

VARIABLES
    options,     \* BinanceFuture.HeikinAshi, and the number of MetadataFetchers
    streamPair,  \* the pair CandlesSubscription was called with ("": none)
    ha,          \* ha of CandlesSubscription: the candles ToHeikinAshi was called with
    kind,        \* "candle": CandlesSubscription, "account": AccountSubscription
    ctxDone,     \* ctx.Done() is closed: cancellation was requested
    cancelledAt, \* where the reconnect loop stood when it was requested
    spc,         \* the reconnect loop goroutine's position
    lastOpen,    \* outcome of the last WsKlineServe / WsUserDataServe call
    attempt,     \* ba.attempt, the backoff's count of durations handed out
    waits,       \* the durations slept since the last ba.Reset(), in ms
    vpc,         \* the vendor stream goroutine: reading, or inside a handler
    vmsg,        \* what the handler is sending (an event or an error)
    vnext,       \* where the vendor goroutine goes once its error handler returns
    raws,        \* the raw messages the vendor delivered to the message handler
    signals,     \* number of messages and error signals produced so far
    kpc,         \* the keep-alive goroutine's position (account stream)
    ticks,       \* number of ticker firings so far
    closed,      \* output channel -> number of close() calls made on it
    fault,       \* the runtime panic that ended the process, if any
    delivered,   \* the events received from the output event channel
    errors       \* the errors received from the output error channel (a bag)

streamVars == <<options, streamPair, ha, kind, ctxDone, cancelledAt, spc, lastOpen, attempt, waits, vpc, vmsg,
                vnext, raws, signals, kpc, ticks, closed, fault, delivered, errors>>

VARIABLES
    hung,        \* the dispatch goroutines inside a consumer that never returns
    faulted,     \* the dispatch goroutine whose consumer panicked, if any
    cpc,         \* the goroutine started by SubWs: its position
    cmsg,        \* ID of the order that goroutine called Publish with last (0: none)
    forwarded    \* the orders that goroutine called Publish with, in order, each
                 \* with the ID of the call

ctlVars == <<hung, faulted, cpc, cmsg, forwarded>>

VARIABLES
    submitted,   \* the requests the exchange received (CreateOrderService.Do),
                 \* in order, each with the number of the call that sent it
    pending,     \* the order-creating calls waiting in Do for the exchange's answer
    returned     \* the order-creating calls that returned, in order of return:
                 \* operation, arguments and the error returned ("nil": none)

orderVars == <<submitted, pending, returned>>

vars == <<feedVars, streamVars, ctlVars, orderVars>>

\* What the surroundings have put in so far: the calls of Subscribe, Start,
\* Publish and SubWs made by the application, the cancellation, the messages
\* and error signals of the vendor stream, its terminations and the firings
\* of the ticker.
Inputs ==
    subscribed + starts + (Len(calls) - Len(forwarded)) + signals + attempt + ticks
        + (IF cpc # "none" THEN 1 ELSE 0) + (IF cpc # "none" /\ ctxDone THEN 1 ELSE 0)

\* The stream on its own is bounded by MaxMsgs, MaxAttempts and MaxTicks; run
\* by SubWs next to the feed, by MaxInputs inputs in all.
StreamBudget == cpc = "none" \/ Inputs < MaxInputs

\* The inputs a run can have: MaxCalls before SubWs, MaxInputs with it.
Budget == IF cpc = "none" THEN MaxCalls ELSE MaxInputs

\* An unrecovered panic in any goroutine ends the process.
Alive == fault = "none"

\* ------------------------------------------------------------- order.Feed
\* Every call of Subscribe can make a DataFeed, and its append an array.
ChanIds == 1..MaxInputs
ArrIds == 1..MaxInputs

\* The nil slice a lookup of SubscriptionsBySymbol yields for a new pair.
NilSlice == [arr |-> 0, len |-> 0]

\* NewOrderFeed: both maps empty, no goroutine yet.
NewOrderFeed ==
    /\ OrderFeeds = [s \in Symbols |-> 0]
    /\ SubscriptionsBySymbol = [s \in Symbols |-> NilSlice]
    /\ backing = [a \in ArrIds |-> [cap |-> 0, cells |-> <<>>]]
    /\ chanSeq = 0
    /\ subscribing = {}
    /\ subscribed = 0
    /\ starting = {}
    /\ starts = 0
    /\ overlaps = 0
    /\ startedWith = [s \in Symbols |-> -1]
    /\ subInfo = [s \in Symbols |-> [starts |-> -1, calls |-> -1, open |-> FALSE,
                                      consumers |-> {}, done |-> 0, overlap |-> FALSE]]
    /\ waiting = [s \in Symbols |-> <<>>]
    /\ running = {}
    /\ sending = {}
    /\ calls = <<>>
    /\ handoff = [c \in ChanIds |-> <<>>]
    /\ invoked = [s \in Symbols |-> <<>>]

\* No order-creating operation has been called.
NoOrders ==
    /\ submitted = <<>>
    /\ pending = {}
    /\ returned = <<>>

\* SubWs has not been called; no consumer has been invoked.
NoController ==
    /\ hung = {}
    /\ faulted = {}
    /\ cpc = "none"
    /\ cmsg = 0
    /\ forwarded = <<>>

\* NewBinanceFuture without options: regular candles, no metadata fetcher.
DefaultOptions == [HeikinAshi |-> FALSE, MetadataFetchers |-> 0]

\* With WithBinanceFuturesHeikinAshiCandle and/or one metadata fetcher.
OptionSets == [HeikinAshi : BOOLEAN, MetadataFetchers : {0, 1}]

\* ha := model.NewHeikinAshi(): ToHeikinAshi was not yet called with it.
NewHeikinAshi == <<>>

\* No stream connection has been asked for.
NoStream ==
    /\ options = DefaultOptions
    /\ streamPair = ""
    /\ ha = NewHeikinAshi
    /\ kind = "none"
    /\ ctxDone = FALSE
    /\ cancelledAt = "none"
    /\ spc = "none"
    /\ lastOpen = "none"
    /\ attempt = 0
    /\ waits = <<>>
    /\ vpc = "none"
    /\ vmsg = <<>>
    /\ vnext = "none"
    /\ raws = <<>>
    /\ signals = 0
    /\ kpc = "none"
    /\ ticks = 0
    /\ closed = [c \in {"data", "err"} |-> 0]
    /\ fault = "none"
    /\ delivered = <<>>
    /\ errors = EmptyBag

\* cap(slice) and the elements of a slice, as its array holds them now.
Cap(slice) == IF slice.arr = 0 THEN 0 ELSE backing[slice.arr].cap
ListOf(slice) ==
    IF slice.arr = 0 THEN <<>> ELSE SubSeq(backing[slice.arr].cells, 1, slice.len)

\* The arrays allocated so far, and the capacity append gives a new array for
\* one element more than a full one holds: 1, 2, 4, 8.
Allocated == Cardinality({a \in ArrIds : backing[a].cap > 0})
NewCap(cap) == IF cap = 0 THEN 1 ELSE 2 * cap

\* (mutant) the list is replaced by one that holds the new subscription only.
AppendSubscription_Replace(slice, subscription) ==
    [slice |-> [arr |-> Allocated + 1, len |-> 1],
     backing |-> [backing EXCEPT ![Allocated + 1] =
                    [cap |-> 1, cells |-> <<subscription>>]]]

\* append(slice, Subscription{...}): with room left in the slice's array the
\* element is written into the cell after the slice's last, whatever that
\* cell holds, and the slice returned points to the same array; with none, the
\* elements are copied to a new array. The slice returned and the arrays.
AppendSubscription(slice, subscription) ==
    IF slice.len < Cap(slice)
      THEN [slice |-> [slice EXCEPT !.len = @ + 1],
            backing |-> [backing EXCEPT ![slice.arr].cells =
                           IF slice.len < Len(@)
                             THEN [@ EXCEPT ![slice.len + 1] = subscription]
                             ELSE Append(@, subscription)]]
      ELSE [slice |-> [arr |-> Allocated + 1, len |-> slice.len + 1],
            backing |-> [backing EXCEPT ![Allocated + 1] =
                           [cap |-> NewCap(Cap(slice)),
                            cells |-> Append(ListOf(slice), subscription)]]]

\* (mutant) the lookup of line 37 never finds the pair.
HasDataFeed_Never(pair) == FALSE

\* `_, ok := d.OrderFeeds[pair]`.
HasDataFeed(pair) == OrderFeeds[pair] # 0

\* The calls of Subscribe and Start in progress.
InProgress == Cardinality(subscribing) + Cardinality(starting)

\* A call of Subscribe or Start begins, alone or while another is in progress.
Begin ==
    /\ Inputs < Budget
    /\ InProgress < MaxOverlap
    /\ IF InProgress = 0
         THEN UNCHANGED overlaps
         ELSE overlaps < MaxOverlaps /\ overlaps' = overlaps + 1

\* Subscribe(pair, consumer, onlyNewOrder) is called: the lookup of line 37.
\* Feed has no lock, so the call is made of steps other goroutines can come
\* between. With no DataFeed for the pair the call goes on to make one, with
\* one to line 44.
Subscribe(pair, consumer, onlyNewOrder) ==
    /\ Alive
    /\ UNCHANGED <<streamVars, ctlVars, orderVars>>
    /\ Begin
    /\ subscribed' = subscribed + 1
    /\ subscribing' = subscribing \cup
         {[id |-> subscribed + 1,
           pair |-> pair,
           subscription |-> [onlyNewOrder |-> onlyNewOrder, consumer |-> consumer],
           pc |-> IF HasDataFeed(pair) THEN "read" ELSE "make",
           slice |-> NilSlice]}
    /\ subInfo' = [subInfo EXCEPT
                     ![pair].consumers = @ \cup {consumer},
                     ![pair].overlap = @ \/ \E c \in subscribing : c.pair = pair]
    /\ UNCHANGED <<registryVars, starting, starts, startedWith, taskVars>>

\* Lines 38-41 of a call that found no DataFeed: it stores a new one, whatever
\* the map holds for the pair by now.
SubscribeMake(c) ==
    /\ Alive
    /\ UNCHANGED <<streamVars, ctlVars, orderVars>>
    /\ c \in subscribing
    /\ c.pc = "make"
    /\ OrderFeeds' = [OrderFeeds EXCEPT ![c.pair] = chanSeq + 1]
    /\ chanSeq' = chanSeq + 1
    /\ subscribing' = (subscribing \ {c}) \cup {[c EXCEPT !.pc = "read"]}
    /\ subInfo' = IF subInfo[c.pair].starts = -1
                    THEN [subInfo EXCEPT ![c.pair].starts = starts,
                                         ![c.pair].calls = Len(calls),
                                         ![c.pair].open = starting # {}]
                    ELSE subInfo
    /\ UNCHANGED <<SubscriptionsBySymbol, backing, subscribed, starting, starts,
                   overlaps, startedWith, taskVars>>

\* Line 44, the argument of append: the call reads the pair's slice.
SubscribeRead(c) ==
    /\ Alive
    /\ UNCHANGED <<streamVars, ctlVars, orderVars>>
    /\ c \in subscribing
    /\ c.pc = "read"
    /\ subscribing' = (subscribing \ {c}) \cup
         {[c EXCEPT !.pc = "append", !.slice = SubscriptionsBySymbol[c.pair]]}
    /\ UNCHANGED <<registryVars, subscribed, starting, starts, overlaps, subInfo,
                   startedWith, taskVars>>

\* Line 44, the append: the call writes its subscription into the array of the
\* slice it read, or into a new one, and holds the slice append returns.
SubscribeAppend(c) ==
    /\ Alive
    /\ UNCHANGED <<streamVars, ctlVars, orderVars>>
    /\ c \in subscribing
    /\ c.pc = "append"
    /\ LET appended == AppendSubscription(c.slice, c.subscription) IN
       /\ backing' = appended.backing
       /\ subscribing' = (subscribing \ {c}) \cup
            {[c EXCEPT !.pc = "store", !.slice = appended.slice]}
    /\ UNCHANGED <<OrderFeeds, SubscriptionsBySymbol, chanSeq, subscribed, starting,
                   starts, overlaps, subInfo, startedWith, taskVars>>

\* Line 44, the store: the slice the call holds becomes the pair's list; the
\* call returns.
SubscribeStore(c) ==
    /\ Alive
    /\ UNCHANGED <<streamVars, ctlVars, orderVars>>
    /\ c \in subscribing
    /\ c.pc = "store"
    /\ SubscriptionsBySymbol' = [SubscriptionsBySymbol EXCEPT ![c.pair] = c.slice]
    /\ subscribing' = subscribing \ {c}
    /\ subInfo' = [subInfo EXCEPT ![c.pair].done = @ + 1]
    /\ UNCHANGED <<OrderFeeds, backing, chanSeq, subscribed, starting, starts,
                   overlaps, startedWith, taskVars>>

\* (mutant) every order is sent on the first channel made.
PublishFeed_FirstChannel(order) == IF chanSeq = 0 THEN 0 ELSE 1

\* The channel Publish sends the order on: the Data channel of the order's pair.
PublishFeed(order) == OrderFeeds[order.Pair]

\* (mutant) Publish without the lookup's ok test: the caller enters the send
\* whether or not the pair has a DataFeed.
Publish_NoLookup(pair) ==
    /\ Alive
    /\ UNCHANGED <<streamVars, ctlVars, orderVars>>
    /\ Inputs < Budget
    /\ LET order == [Pair |-> pair, ID |-> Len(calls) + 1] IN
       /\ calls' = Append(calls, order)
       /\ sending' = sending \cup {[order |-> order, feed |-> PublishFeed(order)]}
    /\ UNCHANGED <<registryVars, callVars, waiting, running, handoff, invoked>>

\* Publish(order): with a DataFeed for order.Pair the caller enters the send on
\* its Data channel (and stays there until a dispatch task receives); with
\* none the call returns at once.
Publish(pair) ==
    /\ Alive
    /\ UNCHANGED <<streamVars, ctlVars, orderVars>>
    /\ Inputs < Budget
    /\ LET order == [Pair |-> pair, ID |-> Len(calls) + 1] IN
       /\ calls' = Append(calls, order)
       /\ IF PublishFeed(order) # 0
            THEN sending' = sending \cup {[order |-> order, feed |-> PublishFeed(order)]}
            ELSE UNCHANGED sending
    /\ UNCHANGED <<registryVars, callVars, waiting, running, handoff, invoked>>

\* Start() is called: `for pair, feed := range d.OrderFeeds` begins. The range
\* takes no lock either: the call has every key the map holds now to go
\* through, and may or may not come to a key stored while it runs.
Start ==
    /\ Alive
    /\ UNCHANGED <<streamVars, ctlVars, orderVars>>
    /\ Begin
    /\ starts' = starts + 1
    /\ starting' = starting \cup
         {[id |-> starts + 1,
           keys |-> {s \in Symbols : OrderFeeds[s] # 0},
           seen |-> {},
           done |-> [s \in Symbols |-> subInfo[s].done]]}
    /\ UNCHANGED <<registryVars, subscribing, subscribed, subInfo, startedWith, taskVars>>

\* One iteration of the range (lines 58-65): a goroutine is spawned with the
\* pair and the DataFeed the map holds for it now, and parks at its receive.
StartSpawn(c, pair) ==
    /\ Alive
    /\ UNCHANGED <<streamVars, ctlVars, orderVars>>
    /\ c \in starting
    /\ pair \notin c.seen
    /\ OrderFeeds[pair] # 0
    /\ starting' = (starting \ {c}) \cup {[c EXCEPT !.seen = @ \cup {pair}]}
    /\ waiting' = [waiting EXCEPT ![pair] = Append(@, OrderFeeds[pair])]
    /\ startedWith' = IF startedWith[pair] = -1
                        THEN [startedWith EXCEPT ![pair] = c.done[pair]]
                        ELSE startedWith
    /\ UNCHANGED <<registryVars, subscribing, subscribed, starts, overlaps, subInfo,
                   running, sending, calls, handoff, invoked>>

\* The range ends and Start returns: every key the map held when the range
\* began has had its iteration.
StartReturn(c) ==
    /\ Alive
    /\ UNCHANGED <<streamVars, ctlVars, orderVars>>
    /\ c \in starting
    /\ c.keys \subseteq c.seen
    /\ starting' = starting \ {c}
    /\ UNCHANGED <<registryVars, subscribing, subscribed, starts, overlaps, subInfo,
                   startedWith, taskVars>>

\* (mutant) the range stops one subscription short.
RangeSubscriptions_DropLast(pair) ==
    [SubscriptionsBySymbol[pair] EXCEPT !.len = IF @ > 0 THEN @ - 1 ELSE 0]

\* The slice a dispatch task ranges over for one order: the one of the task's
\* own pair, read when the inner loop starts.
RangeSubscriptions(pair) == SubscriptionsBySymbol[pair]

\* The subscription the task's range is at: the cell as the array holds it now.
Element(task) == backing[task.subs.arr].cells[task.i]

\* s without its k-th element.
RemoveAt(s, k) == SubSeq(s, 1, k - 1) \o SubSeq(s, k + 1, Len(s))

\* `for order := range feed.Data` (line 60): a parked task of the pair receives
\* from a Publish blocked on the same channel; that Publish returns. The task
\* has the order and has not yet read the pair's list (i = 0).
Receive(pair, k, m) ==
    /\ Alive
    /\ UNCHANGED <<streamVars, ctlVars, orderVars>>
    /\ k \in 1..Len(waiting[pair])
    /\ m \in sending
    /\ m.feed = waiting[pair][k]
    /\ \A j \in 1..(k - 1) : waiting[pair][j] # m.feed
    /\ sending' = sending \ {m}
    /\ handoff' = [handoff EXCEPT ![m.feed] = Append(@, m.order.ID)]
    /\ waiting' = [waiting EXCEPT ![pair] = RemoveAt(@, k)]
    /\ running' = running \cup {[pair |-> pair, feed |-> m.feed,
                                 order |-> m.order, subs |-> NilSlice, i |-> 0]}
    /\ UNCHANGED <<registryVars, callVars, calls, invoked>>

\* `range d.SubscriptionsBySymbol[pair]` (line 61): the task reads the slice of
\* its pair as it is now, a step of its own after the receive, and ranges over
\* that many cells of its array. With an empty slice the task is back at the
\* receive.
Range(task) ==
    /\ Alive
    /\ UNCHANGED <<streamVars, ctlVars, orderVars>>
    /\ task \in running
    /\ task.i = 0
    /\ LET subs == RangeSubscriptions(task.pair) IN
       IF subs.len = 0
         THEN /\ running' = running \ {task}
              /\ waiting' = [waiting EXCEPT ![task.pair] = Append(@, task.feed)]
         ELSE /\ running' = (running \ {task}) \cup
                                {[task EXCEPT !.subs = subs, !.i = 1]}
              /\ UNCHANGED waiting
    /\ UNCHANGED <<registryVars, callVars, sending, calls, handoff, invoked>>

\* subscription.consumer(order) for the next subscription of the list; after
\* the last one the task is back at the receive.
Invoke(task) ==
    /\ Alive
    /\ UNCHANGED <<streamVars, ctlVars, orderVars>>
    /\ task \in running
    /\ task.i >= 1
    /\ invoked' = [invoked EXCEPT ![task.pair] =
                     Append(@, [consumer |-> Element(task).consumer,
                                order |-> task.order])]
    /\ IF task.i = task.subs.len
         THEN /\ running' = running \ {task}
              /\ waiting' = [waiting EXCEPT ![task.pair] = Append(@, task.feed)]
         ELSE /\ running' = (running \ {task}) \cup {[task EXCEPT !.i = task.i + 1]}
              /\ UNCHANGED waiting
    /\ UNCHANGED <<registryVars, callVars, sending, calls, handoff>>

\* subscription.consumer(order) is called and never returns: the goroutine
\* stays inside the inner loop for good. `at` keeps how many Publish calls had
\* been made by then.
InvokeHangs(task) ==
    /\ Alive
    /\ UNCHANGED <<streamVars, faulted, cpc, cmsg, forwarded, orderVars>>
    /\ task \in running
    /\ task.i >= 1
    /\ invoked' = [invoked EXCEPT ![task.pair] =
                     Append(@, [consumer |-> Element(task).consumer,
                                order |-> task.order])]
    /\ running' = running \ {task}
    /\ hung' = hung \cup {[task |-> task, at |-> Len(calls)]}
    /\ UNCHANGED <<registryVars, callVars, waiting, sending, calls, handoff>>

\* (mutant) the panic of a consumer is recovered and the goroutine goes on
\* with the next subscription.
InvokePanics_Isolated(task) ==
    /\ Alive
    /\ UNCHANGED <<streamVars, hung, cpc, cmsg, forwarded, orderVars>>
    /\ task \in running
    /\ task.i >= 1
    /\ faulted = {}
    /\ faulted' = {task}
    /\ invoked' = [invoked EXCEPT ![task.pair] =
                     Append(@, [consumer |-> Element(task).consumer,
                                order |-> task.order])]
    /\ IF task.i = task.subs.len
         THEN /\ running' = running \ {task}
              /\ waiting' = [waiting EXCEPT ![task.pair] = Append(@, task.feed)]
         ELSE /\ running' = (running \ {task}) \cup {[task EXCEPT !.i = task.i + 1]}
              /\ UNCHANGED waiting
    /\ UNCHANGED <<registryVars, callVars, sending, calls, handoff>>

\* subscription.consumer(order) is called and panics: nothing in the goroutine
\* recovers it, so the panic ends the process with the goroutine where it was.
InvokePanics(task) ==
    /\ Alive
    /\ UNCHANGED <<hung, cpc, cmsg, forwarded, orderVars>>
    /\ task \in running
    /\ task.i >= 1
    /\ faulted' = {task}
    /\ fault' = "panic in consumer"
    /\ invoked' = [invoked EXCEPT ![task.pair] =
                     Append(@, [consumer |-> Element(task).consumer,
                                order |-> task.order])]
    /\ UNCHANGED <<registryVars, callVars, waiting, running, sending, calls, handoff>>
    /\ UNCHANGED <<options, streamPair, ha, kind, ctxDone, cancelledAt, spc, lastOpen, attempt, waits, vpc,
                   vmsg, vnext, raws, signals, kpc, ticks, closed, delivered, errors>>

\* What another goroutine can be doing with a map while a call of Subscribe
\* is about to write it: a dispatch goroutine reading the pair's slice (line
\* 61), or a call of Subscribe, Publish or Start reading OrderFeeds (lines 37,
\* 51, 58).
MapUsers == {"dispatch", "Subscribe", "Publish", "Start"}

\* A call of Subscribe writes a map while another goroutine reads the same
\* map: SubscriptionsBySymbol (the store of line 44) against a dispatch
\* goroutine about to read it, OrderFeeds (line 38) against the lookup of a
\* call of Subscribe or Publish or the range of a call of Start. When the two
\* accesses follow each other the outcome is that of the steps taken in that
\* order; when they overlap in time the runtime can end the process with a
\* fatal error.
SubscribeRaces(w, other) ==
    /\ Alive
    /\ w \in subscribing
    /\ IF other = "dispatch"
         THEN w.pc = "store" /\ \E task \in running : task.i = 0
         ELSE w.pc = "make"
    /\ fault' = IF other = "Start" THEN "concurrent map iteration and map write"
                                   ELSE "concurrent map read and map write"
    /\ UNCHANGED <<feedVars, ctlVars, orderVars>>
    /\ UNCHANGED <<options, streamPair, ha, kind, ctxDone, cancelledAt, spc, lastOpen, attempt,
                   waits, vpc, vmsg, vnext, raws, signals, kpc, ticks, closed,
                   delivered, errors>>

\* Two calls of Subscribe in progress use the same map at the same time: both
\* store a DataFeed (line 38), both store a slice, or one stores a slice while
\* the other reads the map (line 44).
SubscribesRace(w, v) ==
    /\ Alive
    /\ w \in subscribing
    /\ v \in subscribing
    /\ w # v
    /\ \/ w.pc = "make" /\ v.pc = "make" /\ fault' = "concurrent map writes"
       \/ w.pc = "store" /\ v.pc = "store" /\ fault' = "concurrent map writes"
       \/ w.pc = "store" /\ v.pc = "read" /\ fault' = "concurrent map read and map write"
    /\ UNCHANGED <<feedVars, ctlVars, orderVars>>
    /\ UNCHANGED <<options, streamPair, ha, kind, ctxDone, cancelledAt, spc, lastOpen, attempt,
                   waits, vpc, vmsg, vnext, raws, signals, kpc, ticks, closed,
                   delivered, errors>>

FeedNext ==
    \/ \E pair \in Symbols, consumer \in Consumers, onlyNewOrder \in OnlyNewFlags :
          Subscribe(pair, consumer, onlyNewOrder)
    \/ \E pair \in Symbols : Publish(pair)
    \/ Start
    \/ \E c \in starting, pair \in Symbols : StartSpawn(c, pair)
    \/ \E c \in starting : StartReturn(c)
    \/ \E pair \in Symbols, k \in 1..MaxInputs, m \in sending : Receive(pair, k, m)
    \/ \E task \in running : Range(task)
    \/ \E task \in running : Invoke(task)
    \/ \E task \in running : InvokeHangs(task)
    \/ \E task \in running : InvokePanics(task)
    \/ \E c \in subscribing : SubscribeMake(c)
    \/ \E c \in subscribing : SubscribeRead(c)
    \/ \E c \in subscribing : SubscribeAppend(c)
    \/ \E c \in subscribing : SubscribeStore(c)
    \/ \E w \in subscribing, other \in MapUsers : SubscribeRaces(w, other)
    \/ \E w, v \in subscribing : SubscribesRace(w, v)

\* The feed alone, its callers being the application.
FeedInit == NewOrderFeed /\ NoStream /\ NoController /\ NoOrders

FeedSpec == FeedInit /\ [][FeedNext]_vars

\* ------------------------------ CandlesSubscription / AccountSubscription
Kinds == {"candle", "account"}

\* backoff.Backoff{Min: 100 * time.Millisecond, Max: 1 * time.Second}, in ms.
BackoffMin == 100

\* (mutant) Max left unset: the backoff package's default of 10 s applies.
BackoffMax_Unset == 10 * 1000

BackoffMax == 1000

RECURSIVE Pow(_, _)
Pow(b, n) == IF n = 0 THEN 1 ELSE b * Pow(b, n - 1)

\* Backoff Policy (spec 4.2, doubling, no jitter): the duration handed out for
\* the given count of earlier durations: Min * 2^attempt, kept within [Min, Max].
ForAttempt(a) ==
    LET dur == BackoffMin * Pow(2, a) IN
    IF BackoffMin >= BackoffMax THEN BackoffMax
    ELSE IF dur < BackoffMin THEN BackoffMin
    ELSE IF dur > BackoffMax THEN BackoffMax
    ELSE dur

\* strconv.ParseFloat on the numeric strings used here: the value and whether
\* it failed (a failure yields 0).
ParseFloat(str) ==
    CASE str = "50000" -> [val |-> 50000, err |-> FALSE]
      [] str = "48976" -> [val |-> 48976, err |-> FALSE]
      [] str = "2"     -> [val |-> 2, err |-> FALSE]
      [] OTHER         -> [val |-> 0, err |-> TRUE]

\* The raw messages the vendor streams deliver: a kline (price is its Close,
\* qty its Volume), and user data events (an order trade update with
\* AveragePrice and AccumulatedFilledQty, or another event type).
CandleMsgs ==
    {[event |-> "kline", symbol |-> "BTCUSDT", open |-> "50000", price |-> "50000",
      high |-> "50000", low |-> "48976", qty |-> "2", final |-> TRUE],
     [event |-> "kline", symbol |-> "BTCUSDT", open |-> "50000", price |-> "abc",
      high |-> "50000", low |-> "48976", qty |-> "2", final |-> TRUE],
     [event |-> "kline", symbol |-> "BTCUSDT", open |-> "50000", price |-> "abc",
      high |-> "50000", low |-> "48976", qty |-> "2", final |-> FALSE]}

AccountMsgs ==
    {[event |-> "ORDER_TRADE_UPDATE", symbol |-> "BTCUSDT", price |-> "50000", qty |-> "2"],
     [event |-> "ORDER_TRADE_UPDATE", symbol |-> "ETHUSDT", price |-> "50000", qty |-> "2"],
     [event |-> "ORDER_TRADE_UPDATE", symbol |-> "BTCUSDT", price |-> "abc", qty |-> "2"],
     [event |-> "ORDER_TRADE_UPDATE", symbol |-> "BTCUSDT", price |-> "50000", qty |-> "x"],
     [event |-> "ACCOUNT_UPDATE", symbol |-> "", price |-> "", qty |-> ""]}

RawMsgs(k) == IF k = "candle" THEN CandleMsgs ELSE AccountMsgs

\* The pair CandlesSubscription is called with, as the caller spells it; the
\* klines of the stream carry the symbol as the exchange spells it.
SubscriptionPairs == {"BTCUSDT", "btcusdt"}

\* FutureCandleFromWsKline(pair, k): Pair is the argument, the kline's symbol
\* is not read; every numeric field is parsed, a failure is logged as a
\* warning and the field keeps the 0 ParseFloat returned. Metadata is a new
\* map (the number of its entries; -1 stands for the nil map).
FutureCandleFromWsKline(id, pair, raw) ==
    [do |-> "event", id |-> id, pair |-> pair,
     open |-> ParseFloat(raw.open).val,
     price |-> ParseFloat(raw.price).val,
     high |-> ParseFloat(raw.high).val,
     low |-> ParseFloat(raw.low).val,
     qty |-> ParseFloat(raw.qty).val,
     complete |-> raw.final,
     heikinAshi |-> FALSE,
     metadata |-> 0]

\* What candle.ToHeikinAshi(ha) can return. The method belongs to the model
\* package, which is not among the sources: of the candle it returns, the
\* handler reads Complete (line 602) and writes Metadata (line 606), so
\* the candle may be complete or not and may hold the map of the candle it
\* was called on or none.
HeikinAshiResults == [complete : BOOLEAN, keepsMetadata : BOOLEAN]

\* candle = candle.ToHeikinAshi(ha): the candle is replaced by the one the
\* call returns, whose four prices are those of the Heikin-Ashi candle and are
\* left open here.
ToHeikinAshi(candle, result) ==
    [do |-> "event", id |-> candle.id, pair |-> candle.pair,
     complete |-> result.complete,
     heikinAshi |-> TRUE,
     metadata |-> IF result.keepsMetadata THEN candle.metadata ELSE -1]

\* The candle handler from FutureCandleFromWsKline to the loop over the
\* fetchers: a complete candle is replaced by its Heikin-Ashi candle when
\* b.HeikinAshi is set.
CandleHandler(id, raw, result) ==
    LET candle == FutureCandleFromWsKline(id, streamPair, raw)
    IN  IF candle.complete /\ options.HeikinAshi THEN ToHeikinAshi(candle, result)
                                                  ELSE candle

\* The WsUserDataServe message handler up to its send: an event that is not an
\* order trade update is skipped; a price or quantity that does not parse is
\* sent on cerr and the handler returns; otherwise the order is sent on orders.
AccountHandler(id, raw) ==
    IF raw.event # "ORDER_TRADE_UPDATE" THEN [do |-> "skip", id |-> id]
    ELSE IF ParseFloat(raw.price).err THEN [do |-> "error", id |-> id, tag |-> "decode"]
    ELSE IF ParseFloat(raw.qty).err THEN [do |-> "error", id |-> id, tag |-> "decode"]
    ELSE [do |-> "event", id |-> id, pair |-> raw.symbol,
          price |-> ParseFloat(raw.price).val, qty |-> ParseFloat(raw.qty).val]

\* The subscription goroutines right after they are started: the reconnect
\* loop about to open the stream, the keep-alive goroutine at its select.
StreamInit ==
    /\ kind \in Kinds
    /\ options \in IF kind = "candle" THEN OptionSets ELSE {DefaultOptions}
    /\ streamPair \in IF kind = "candle" THEN SubscriptionPairs ELSE {""}
    /\ ha = NewHeikinAshi
    /\ ctxDone = FALSE
    /\ cancelledAt = "none"
    /\ spc = "serve"
    /\ lastOpen = "none"
    /\ attempt = 0
    /\ waits = <<>>
    /\ vpc = "none"
    /\ vmsg = <<>>
    /\ vnext = "none"
    /\ raws = <<>>
    /\ signals = 0
    /\ kpc = IF kind = "account" THEN "select" ELSE "none"
    /\ ticks = 0
    /\ closed = [c \in {"data", "err"} |-> 0]
    /\ fault = "none"
    /\ delivered = <<>>
    /\ errors = EmptyBag

\* The owner of ctx cancels it.
Cancel ==
    /\ UNCHANGED <<feedVars, ctlVars, orderVars>>
    /\ Alive
    /\ StreamBudget
    /\ kind # "none"
    /\ ~ctxDone
    /\ ctxDone' = TRUE
    /\ cancelledAt' = spc
    /\ UNCHANGED <<options, streamPair, ha, kind, spc, lastOpen, attempt, waits, vpc, vmsg, vnext, raws,
                   signals, kpc, ticks, closed, fault, delivered, errors>>

\* done, _, err := futures.WsKlineServe(...) / WsUserDataServe(...): on success
\* a vendor goroutine reads the stream and the loop goes to its select; on
\* failure the loop goes to `cerr <- err`.
Serve(ok) ==
    /\ UNCHANGED <<feedVars, ctlVars, orderVars>>
    /\ Alive
    /\ spc = "serve"
    /\ IF ok
         THEN /\ spc' = "select"
              /\ lastOpen' = "ok"
              /\ vpc' = "read"
         ELSE /\ spc' = "reportOpen"
              /\ lastOpen' = "fail"
              /\ UNCHANGED vpc
    /\ UNCHANGED <<options, streamPair, ha, kind, ctxDone, cancelledAt, attempt, waits, vmsg, vnext, raws,
                   signals, kpc, ticks, closed, fault, delivered, errors>>

\* The receiver of cerr takes the open error: `cerr <- err` returns and the
\* loop goes on to close(cerr).
RecvOpenError ==
    /\ UNCHANGED <<feedVars, ctlVars, orderVars>>
    /\ Alive
    /\ spc = "reportOpen"
    /\ closed["err"] = 0
    /\ errors' = errors (+) SetToBag({[tag |-> "open", id |-> 0]})
    /\ spc' = "closeErr"
    /\ UNCHANGED <<options, streamPair, ha, kind, ctxDone, cancelledAt, lastOpen, attempt, waits, vpc, vmsg,
                   vnext, raws, signals, kpc, ticks, closed, fault, delivered>>

\* close(c): closing a closed channel panics.
Close(c) ==
    /\ closed' = [closed EXCEPT ![c] = @ + 1]
    /\ fault' = IF closed[c] > 0 THEN "close of closed channel" ELSE fault

\* close(cerr), on both return paths of the loop.
CloseErr ==
    /\ UNCHANGED <<feedVars, ctlVars, orderVars>>
    /\ Alive
    /\ spc = "closeErr"
    /\ Close("err")
    /\ spc' = "closeData"
    /\ UNCHANGED <<options, streamPair, ha, kind, ctxDone, cancelledAt, lastOpen, attempt, waits, vpc, vmsg,
                   vnext, raws, signals, kpc, ticks, delivered, errors>>

\* close(ccandle) / close(orders), then return.
CloseData ==
    /\ UNCHANGED <<feedVars, ctlVars, orderVars>>
    /\ Alive
    /\ spc = "closeData"
    /\ Close("data")
    /\ spc' = "returned"
    /\ UNCHANGED <<options, streamPair, ha, kind, ctxDone, cancelledAt, lastOpen, attempt, waits, vpc, vmsg,
                   vnext, raws, signals, kpc, ticks, delivered, errors>>

\* select, case <-ctx.Done().
SelectCtx ==
    /\ UNCHANGED <<feedVars, ctlVars, orderVars>>
    /\ Alive
    /\ spc = "select"
    /\ ctxDone
    /\ spc' = "closeErr"
    /\ UNCHANGED <<options, streamPair, ha, kind, ctxDone, cancelledAt, lastOpen, attempt, waits, vpc, vmsg,
                   vnext, raws, signals, kpc, ticks, closed, fault, delivered, errors>>

\* (mutant) after `case <-done` the loop gives up instead of sleeping.
SleepAfterDone_GiveUp ==
    [pc |-> "closeErr", wait |-> ForAttempt(attempt), attempt |-> attempt + 1]

\* The state of the loop after `case <-done`: it sleeps ba.Duration(), which
\* hands out the duration for the current attempt and counts it.
SleepAfterDone == [pc |-> "sleep", wait |-> ForAttempt(attempt), attempt |-> attempt + 1]

\* select, case <-done: time.Sleep(ba.Duration()).
SelectDone ==
    /\ UNCHANGED <<feedVars, ctlVars, orderVars>>
    /\ Alive
    /\ spc = "select"
    /\ vpc = "done"
    /\ StreamBudget
    /\ attempt < MaxAttempts
    /\ spc' = SleepAfterDone.pc
    /\ waits' = Append(waits, SleepAfterDone.wait)
    /\ attempt' = SleepAfterDone.attempt
    /\ UNCHANGED <<options, streamPair, ha, kind, ctxDone, cancelledAt, lastOpen, vpc, vmsg, vnext, raws,
                   signals, kpc, ticks, closed, fault, delivered, errors>>

\* time.Sleep returns: the loop starts over.
Wake ==
    /\ UNCHANGED <<feedVars, ctlVars, orderVars>>
    /\ Alive
    /\ spc = "sleep"
    /\ spc' = "serve"
    /\ UNCHANGED <<options, streamPair, ha, kind, ctxDone, cancelledAt, lastOpen, attempt, waits, vpc, vmsg,
                   vnext, raws, signals, kpc, ticks, closed, fault, delivered, errors>>

\* The vendor goroutine reads a message and calls the message handler, which
\* runs up to its send, or for a complete candle up to the call of the
\* metadata fetcher when there is one. The candle handler begins with
\* ba.Reset().
VendorMessage(raw) ==
    /\ UNCHANGED <<feedVars, ctlVars, orderVars>>
    /\ Alive
    /\ vpc = "read"
    /\ StreamBudget
    /\ signals < MaxMsgs
    /\ signals' = signals + 1
    /\ raws' = Append(raws, raw)
    /\ \E result \in HeikinAshiResults :
       LET id == Len(raws) + 1
           out == IF kind = "candle" THEN CandleHandler(id, raw, result)
                                     ELSE AccountHandler(id, raw)
       IN  /\ vpc' = CASE out.do = "event" ->
                             IF kind = "candle" /\ out.complete
                                    /\ options.MetadataFetchers > 0
                               THEN "fetch" ELSE "event"
                       [] out.do = "error" -> "error"
                       [] OTHER -> "read"
           /\ vmsg' = IF out.do = "skip" THEN <<>> ELSE out
           /\ vnext' = IF out.do = "error" THEN "read" ELSE vnext
           /\ ha' = IF kind = "candle" /\ raw.final /\ options.HeikinAshi
                      THEN Append(ha, id)
                      ELSE ha
    /\ IF kind = "candle"
         THEN attempt' = 0 /\ waits' = <<>>
         ELSE UNCHANGED <<attempt, waits>>
    /\ UNCHANGED <<options, streamPair, kind, ctxDone, cancelledAt, spc, lastOpen, kpc, ticks,
                   closed, fault, delivered, errors>>

\* What a call of a metadata fetcher, code of the application, does.
FetcherOutcomes == {"returns", "hangs", "panics"}

\* key, value := fetcher(pair, candle.Time); candle.Metadata[key] = value.
\* The fetcher returns and the handler stores the value and goes on to its
\* send, the store into a nil map being a panic; or the fetcher never returns
\* and the vendor goroutine stays in the handler; or it panics. Nothing
\* recovers a panic.
MetadataFetch(outcome) ==
    /\ UNCHANGED <<feedVars, ctlVars, orderVars>>
    /\ Alive
    /\ vpc = "fetch"
    /\ vpc' = CASE outcome = "returns" /\ vmsg.metadata # -1 -> "event"
                 [] outcome = "hangs" -> "fetching"
                 [] OTHER -> vpc
    /\ vmsg' = IF outcome = "returns" /\ vmsg.metadata # -1
                 THEN [vmsg EXCEPT !.metadata = @ + 1] ELSE vmsg
    /\ fault' = CASE outcome = "panics" -> "panic in metadata fetcher"
                   [] outcome = "returns" /\ vmsg.metadata = -1 ->
                         "panic: assignment to entry in nil map"
                   [] OTHER -> fault
    /\ UNCHANGED <<options, streamPair, ha, kind, ctxDone, cancelledAt, spc, lastOpen, attempt,
                   waits, vnext, raws, signals, kpc, ticks, closed, delivered, errors>>

\* (mutant) an error handler that also counts the error as a failed attempt.
VendorError_CountsFailure(last) ==
    /\ UNCHANGED <<feedVars, ctlVars, orderVars>>
    /\ Alive
    /\ vpc = "read"
    /\ StreamBudget
    /\ IF last THEN attempt < MaxAttempts ELSE signals < MaxMsgs
    /\ signals' = IF last THEN signals ELSE signals + 1
    /\ vpc' = "error"
    /\ vmsg' = [do |-> "error", id |-> 0, tag |-> "stream"]
    /\ vnext' = IF last THEN "done" ELSE "read"
    /\ attempt' = IF attempt < MaxAttempts THEN attempt + 1 ELSE attempt
    /\ UNCHANGED <<options, streamPair, ha, kind, ctxDone, cancelledAt, spc, lastOpen, waits, raws,
                   kpc, ticks, closed, fault, delivered, errors>>

\* The vendor goroutine calls the error handler: for a message it cannot
\* decode (it goes on reading afterwards) or for a failed read (it then
\* returns, which closes done).
VendorError(last) ==
    /\ UNCHANGED <<feedVars, ctlVars, orderVars>>
    /\ Alive
    /\ vpc = "read"
    /\ StreamBudget
    /\ IF last THEN attempt < MaxAttempts ELSE signals < MaxMsgs
    /\ signals' = IF last THEN signals ELSE signals + 1
    /\ vpc' = "error"
    /\ vmsg' = [do |-> "error", id |-> 0, tag |-> "stream"]
    /\ vnext' = IF last THEN "done" ELSE "read"
    /\ UNCHANGED <<options, streamPair, ha, kind, ctxDone, cancelledAt, spc, lastOpen, attempt, waits, raws,
                   kpc, ticks, closed, fault, delivered, errors>>

\* The receiver takes the event the message handler is sending on
\* ccandle / orders: the handler returns and the vendor goroutine reads on.
RecvEvent ==
    /\ UNCHANGED <<feedVars, ctlVars, orderVars>>
    /\ Alive
    /\ vpc = "event"
    /\ closed["data"] = 0
    /\ delivered' = Append(delivered, vmsg)
    /\ vpc' = "read"
    /\ vmsg' = <<>>
    /\ UNCHANGED <<options, streamPair, ha, kind, ctxDone, cancelledAt, spc, lastOpen, attempt, waits, vnext,
                   raws, signals, kpc, ticks, closed, fault, errors>>

\* The receiver takes the error a handler of the vendor goroutine is sending on cerr.
RecvStreamError ==
    /\ UNCHANGED <<feedVars, ctlVars, orderVars>>
    /\ Alive
    /\ vpc = "error"
    /\ closed["err"] = 0
    /\ errors' = errors (+) SetToBag({[tag |-> vmsg.tag, id |-> vmsg.id]})
    /\ vpc' = vnext
    /\ vmsg' = <<>>
    /\ UNCHANGED <<options, streamPair, ha, kind, ctxDone, cancelledAt, spc, lastOpen, attempt, waits, vnext,
                   raws, signals, kpc, ticks, closed, fault, delivered>>

\* A handler of the vendor goroutine is at a send on a channel the loop has
\* closed: the send panics.
VendorSendPanics ==
    /\ UNCHANGED <<feedVars, ctlVars, orderVars>>
    /\ Alive
    /\ \/ vpc = "event" /\ closed["data"] > 0
       \/ vpc = "error" /\ closed["err"] > 0
    /\ fault' = "send on closed channel"
    /\ UNCHANGED <<options, streamPair, ha, kind, ctxDone, cancelledAt, spc, lastOpen, attempt, waits, vpc,
                   vmsg, vnext, raws, signals, kpc, ticks, closed, delivered, errors>>

\* Keep-alive goroutine, case t := <-ticker.C: the keep-alive request; a failed
\* one (as every request made with a cancelled ctx) takes it to `cerr <- err2`.
KeepaliveTick(ok) ==
    /\ UNCHANGED <<feedVars, ctlVars, orderVars>>
    /\ Alive
    /\ kpc = "select"
    /\ StreamBudget
    /\ ticks < MaxTicks
    /\ ticks' = ticks + 1
    /\ kpc' = IF ok /\ ~ctxDone THEN "select" ELSE "send"
    /\ UNCHANGED <<options, streamPair, ha, kind, ctxDone, cancelledAt, spc, lastOpen, attempt, waits, vpc,
                   vmsg, vnext, raws, signals, closed, fault, delivered, errors>>

\* Keep-alive goroutine, case <-ctx.Done(): return.
KeepaliveReturn ==
    /\ UNCHANGED <<feedVars, ctlVars, orderVars>>
    /\ Alive
    /\ kpc = "select"
    /\ ctxDone
    /\ kpc' = "returned"
    /\ UNCHANGED <<options, streamPair, ha, kind, ctxDone, cancelledAt, spc, lastOpen, attempt, waits, vpc,
                   vmsg, vnext, raws, signals, ticks, closed, fault, delivered, errors>>

\* The receiver takes the keep-alive error.
RecvKeepaliveError ==
    /\ UNCHANGED <<feedVars, ctlVars, orderVars>>
    /\ Alive
    /\ kpc = "send"
    /\ closed["err"] = 0
    /\ errors' = errors (+) SetToBag({[tag |-> "keepalive", id |-> 0]})
    /\ kpc' = "select"
    /\ UNCHANGED <<options, streamPair, ha, kind, ctxDone, cancelledAt, spc, lastOpen, attempt, waits, vpc,
                   vmsg, vnext, raws, signals, ticks, closed, fault, delivered>>

\* The keep-alive goroutine is at its send on a closed cerr: the send panics.
KeepaliveSendPanics ==
    /\ UNCHANGED <<feedVars, ctlVars, orderVars>>
    /\ Alive
    /\ kpc = "send"
    /\ closed["err"] > 0
    /\ fault' = "send on closed channel"
    /\ UNCHANGED <<options, streamPair, ha, kind, ctxDone, cancelledAt, spc, lastOpen, attempt, waits, vpc,
                   vmsg, vnext, raws, signals, kpc, ticks, closed, delivered, errors>>

LoopStep ==
    \/ \E ok \in BOOLEAN : Serve(ok)
    \/ CloseErr
    \/ CloseData
    \/ SelectCtx
    \/ SelectDone
    \/ Wake

VendorStep ==
    \/ \E raw \in RawMsgs(kind) : VendorMessage(raw)
    \/ \E outcome \in FetcherOutcomes : MetadataFetch(outcome)
    \/ \E last \in BOOLEAN : VendorError(last)
    \/ VendorSendPanics

KeepaliveStep ==
    \/ \E ok \in BOOLEAN : KeepaliveTick(ok)
    \/ KeepaliveReturn
    \/ KeepaliveSendPanics

ReceiverStep ==
    \/ RecvOpenError
    \/ RecvEvent
    \/ RecvStreamError
    \/ RecvKeepaliveError

StreamNext == Cancel \/ LoopStep \/ VendorStep \/ KeepaliveStep \/ ReceiverStep

\* One subscription and a consumer receiving from both of its channels; the
\* feed is not used.
StreamSpecInit == NewOrderFeed /\ StreamInit /\ NoController /\ NoOrders

StreamSpec == StreamSpecInit /\ [][StreamNext]_vars

\* The goroutines that can take a step are scheduled, the select takes a ready
\* case, and the consumer keeps receiving; the vendor stream and the ticker
\* owe nothing.
StreamFairness ==
    /\ WF_vars(LoopStep)
    /\ SF_vars(SelectCtx)
    /\ WF_vars(ReceiverStep)
    /\ WF_vars(VendorSendPanics)
    /\ WF_vars((KeepaliveReturn \/ KeepaliveSendPanics))

FairStreamSpec == StreamSpec /\ StreamFairness

\* ------------------------------------------------------------- Feed.SubWs
\* SubWs(ctx): the goroutine it starts calls AccountSubscription. When the
\* user stream cannot be started, AccountSubscription sends the error on the
\* channel it has just made and not yet returned, and the goroutine stays in
\* that send; otherwise the keep-alive and reconnect goroutines are started
\* and the goroutine enters its loop with the two channels.
SubWs(ok) ==
    /\ Alive
    /\ UNCHANGED <<feedVars, hung, faulted, cmsg, forwarded, orderVars>>
    /\ Inputs < Budget
    /\ cpc = "none"
    /\ kind = "none"
    /\ kind' = "account"
    /\ IF ok
         THEN /\ cpc' = "loop"
              /\ spc' = "serve"
              /\ kpc' = "select"
         ELSE /\ cpc' = "startUserStream"
              /\ UNCHANGED <<spc, kpc>>
    /\ UNCHANGED <<options, streamPair, ha, ctxDone, cancelledAt, lastOpen, attempt, waits, vpc,
                   vmsg, vnext, raws, signals, ticks, closed, fault, delivered, errors>>

\* (mutant) the goroutine receives the next event whether or not the Publish
\* call it made last has returned.
AtSelect_NoWait == cpc = "loop"

\* The goroutine is at its select: it is in the loop and the Publish call it
\* made last, if any, has returned.
AtSelect == cpc = "loop" /\ \A m \in sending : m.order.ID # cmsg

\* The zero model.Order a receive from the closed channel yields.
ZeroOrder == [do |-> "event", id |-> 0, pair |-> "", price |-> 0, qty |-> 0]

\* d.Publish(o, false) called by the goroutine with the order o it received.
ControllerPublish(o) ==
    LET order == [Pair |-> o.pair, ID |-> Len(calls) + 1] IN
    /\ calls' = Append(calls, order)
    /\ forwarded' = Append(forwarded, [event |-> o, call |-> order.ID])
    /\ cmsg' = order.ID
    /\ IF order.Pair \in Symbols /\ PublishFeed(order) # 0
         THEN sending' = sending \cup {[order |-> order, feed |-> PublishFeed(order)]}
         ELSE UNCHANGED sending
    /\ UNCHANGED <<registryVars, callVars, waiting, running, handoff, invoked>>

\* case o := <-subscription, with a handler sending an order: the handler
\* returns and the goroutine calls Publish.
ControllerRecvEvent ==
    /\ Alive
    /\ AtSelect
    /\ Len(forwarded) < MaxInputs
    /\ vpc = "event"
    /\ closed["data"] = 0
    /\ delivered' = Append(delivered, vmsg)
    /\ vpc' = "read"
    /\ vmsg' = <<>>
    /\ ControllerPublish(vmsg)
    /\ UNCHANGED <<hung, faulted, cpc, orderVars>>
    /\ UNCHANGED <<options, streamPair, ha, kind, ctxDone, cancelledAt, spc, lastOpen, attempt, waits, vnext,
                   raws, signals, kpc, ticks, closed, fault, errors>>

\* case o := <-subscription, the channel being closed: the receive yields the
\* zero order at once and the goroutine calls Publish with it.
ControllerRecvClosed ==
    /\ Alive
    /\ AtSelect
    /\ Len(forwarded) <= MaxMsgs
    /\ closed["data"] > 0
    /\ ControllerPublish(ZeroOrder)
    /\ UNCHANGED <<streamVars, hung, faulted, cpc, orderVars>>

\* case err := <-errors, with a goroutine sending an error: it is printed.
ControllerRecvError ==
    /\ AtSelect
    /\ RecvOpenError \/ RecvStreamError \/ RecvKeepaliveError

ControllerStep ==
    \/ ControllerRecvEvent
    \/ ControllerRecvClosed
    \/ ControllerRecvError

\* The messages the user data stream delivers next to the feed.
ControllerMsgs == {r \in AccountMsgs : r.qty = "2"}

\* The application registers its consumers before it calls SubWs, from one
\* goroutine: one call after the other.
SetupSubscribe ==
    /\ cpc = "none"
    /\ InProgress = 0
    /\ \E pair \in Symbols : Subscribe(pair, "c1", FALSE)

\* The rest of the Subscribe call the application is in.
SetupSubscribeStep ==
    \E c \in subscribing :
        SubscribeMake(c) \/ SubscribeRead(c) \/ SubscribeAppend(c) \/ SubscribeStore(c)

\* The Start calls of the application, before SubWs and after.
ApplicationStart == InProgress = 0 /\ Start

\* The rest of the Start call the application is in.
ApplicationStartStep ==
    \E c \in starting : StartReturn(c) \/ \E pair \in Symbols : StartSpawn(c, pair)

\* SubWs is called once the registrations are made.
SetupSubWs == InProgress = 0 /\ \E ok \in BOOLEAN : SubWs(ok)

\* Once SubWs was called, the application may publish orders of its own.
ApplicationPublish == cpc # "none" /\ \E pair \in Symbols : Publish(pair)

DispatchStep ==
    \/ \E pair \in Symbols, k \in 1..MaxInputs, m \in sending : Receive(pair, k, m)
    \/ \E task \in running : Range(task)
    \/ \E task \in running : Invoke(task)
    \/ \E task \in running : InvokeHangs(task)
    \/ \E task \in running : InvokePanics(task)

\* The application using the feed, SubWs and the account stream together.
ControllerNext ==
    \/ SetupSubscribe
    \/ SetupSubscribeStep
    \/ ApplicationStart
    \/ ApplicationStartStep
    \/ SetupSubWs
    \/ ApplicationPublish
    \/ DispatchStep
    \/ Cancel
    \/ LoopStep
    \/ \E raw \in ControllerMsgs : VendorMessage(raw)
    \/ \E last \in BOOLEAN : VendorError(last)
    \/ VendorSendPanics
    \/ KeepaliveStep
    \/ ControllerStep

ControllerSpec == FeedInit /\ [][ControllerNext]_vars

\* --------------------------------------------- order-creating operations
\* Quantities are counted in lots (whole numbers); the side and the prices of
\* an order take no part in validate and are left out of the requests.
Pairs == Symbols \cup {"DOGEUSDT"}
Quantities == 0..MaxQty

\* BinanceFuture.assetsInfo, as NewBinanceFuture builds it from the LOT_SIZE
\* filters of the exchange information: DOGEUSDT is not listed.
assetsInfo ==
    [s \in Symbols |->
        IF s = "BTCUSDT" THEN [MinQuantity |-> 1, MaxQuantity |-> 3, StepSize |-> 1]
                         ELSE [MinQuantity |-> 2, MaxQuantity |-> 3, StepSize |-> 2]]

\* validate: the error it returns ("nil": none).
validate(pair, quantity) ==
    IF pair \notin DOMAIN assetsInfo
        THEN "ErrInvalidAsset"
        ELSE IF \/ quantity > assetsInfo[pair].MaxQuantity
                \/ quantity < assetsInfo[pair].MinQuantity
                 THEN "ErrInvalidQuantity"
                 ELSE "nil"

\* common.AmountToLotSize: the amount cut down to a multiple of the lot.
AmountToLotSize(lot, amount) == (amount \div lot) * lot

\* strconv.FormatFloat(value, 'f', -1, 64) of a whole number below ten.
FormatFloat(value) == <<"0", "1", "2", "3", "4", "5", "6", "7", "8", "9">>[value + 1]

formatQuantity(pair, value) ==
    IF pair \in DOMAIN assetsInfo
        THEN FormatFloat(AmountToLotSize(assetsInfo[pair].StepSize, value))
        ELSE FormatFloat(value)

\* The order-creating calls made so far, and the number of the next one.
OrderCalls == Len(returned) + Cardinality(pending)

\* orderService.Do, first half: the exchange receives the request and the
\* caller waits for the answer. BinanceFuture has no lock: other calls can be
\* made meanwhile.
Do(op, type, pair, quantity, formatted, closePosition) ==
    /\ submitted' = Append(submitted, [call |-> OrderCalls + 1,
                                       symbol |-> pair,
                                       type |-> type,
                                       quantity |-> formatted,
                                       closePosition |-> closePosition])
    /\ pending' = pending \cup {[call |-> OrderCalls + 1, op |-> op,
                                 pair |-> pair, quantity |-> quantity]}
    /\ UNCHANGED returned

\* The call returns err to its caller without having sent a request.
Reject(op, pair, quantity, err) ==
    /\ returned' = Append(returned, [call |-> OrderCalls + 1, op |-> op, pair |-> pair,
                                     quantity |-> quantity, err |-> err])
    /\ UNCHANGED <<submitted, pending>>

CreateOrderLimit(pair, quantity) ==
    /\ Alive
    /\ OrderCalls < MaxOrders
    /\ IF validate(pair, quantity) # "nil"
         THEN Reject("CreateOrderLimit", pair, quantity, validate(pair, quantity))
         ELSE Do("CreateOrderLimit", "LIMIT", pair, quantity,
                 formatQuantity(pair, quantity), FALSE)
    /\ UNCHANGED <<feedVars, streamVars, ctlVars>>

CreateOrderMarket(pair, quantity) ==
    /\ Alive
    /\ OrderCalls < MaxOrders
    /\ IF validate(pair, quantity) # "nil"
         THEN Reject("CreateOrderMarket", pair, quantity, validate(pair, quantity))
         ELSE Do("CreateOrderMarket", "MARKET", pair, quantity,
                 formatQuantity(pair, quantity), FALSE)
    /\ UNCHANGED <<feedVars, streamVars, ctlVars>>

\* validate is called only for a positive quantity; otherwise the request
\* closes the position and carries no quantity.
CreateOrderStop(pair, quantity) ==
    /\ Alive
    /\ OrderCalls < MaxOrders
    /\ IF quantity > 0
         THEN IF validate(pair, quantity) # "nil"
                THEN Reject("CreateOrderStop", pair, quantity, validate(pair, quantity))
                ELSE Do("CreateOrderStop", "STOP_MARKET", pair, quantity,
                        formatQuantity(pair, quantity), FALSE)
         ELSE Do("CreateOrderStop", "STOP_MARKET", pair, quantity, "", TRUE)
    /\ UNCHANGED <<feedVars, streamVars, ctlVars>>

TakeProfit(pair, quantity) ==
    /\ Alive
    /\ OrderCalls < MaxOrders
    /\ IF quantity > 0
         THEN IF validate(pair, quantity) # "nil"
                THEN Reject("TakeProfit", pair, quantity, validate(pair, quantity))
                ELSE Do("TakeProfit", "TAKE_PROFIT", pair, quantity,
                        formatQuantity(pair, quantity), FALSE)
         ELSE Do("TakeProfit", "TAKE_PROFIT_MARKET", pair, quantity, "", TRUE)
    /\ UNCHANGED <<feedVars, streamVars, ctlVars>>

\* validate is not called: the request is built and sent whatever the pair
\* and the quantity are.
CreateOrderTrailingStop(pair, quantity) ==
    /\ Alive
    /\ OrderCalls < MaxOrders
    /\ Do("CreateOrderTrailingStop", "TRAILING_STOP_MARKET", pair, quantity,
          formatQuantity(pair, quantity), FALSE)
    /\ UNCHANGED <<feedVars, streamVars, ctlVars>>

\* What the exchange answers to a request: an error; an order whose numeric
\* fields parse; an order in which one of them does not.
Answers == {"error", "order", "unparsable"}

\* What the operation returns once Do has returned. The error of Do is returned
\* by all five. CreateOrderLimit (AvgPrice, OrigQuantity), CreateOrderMarket
\* and TakeProfit (CumQuote, ExecutedQuantity) return the error of ParseFloat;
\* CreateOrderStop and CreateOrderTrailingStop discard it.
ReturnedErr(op, answer) ==
    CASE answer = "error" -> "APIError"
      [] answer = "unparsable"
            /\ op \in {"CreateOrderLimit", "CreateOrderMarket", "TakeProfit"} -> "NumError"
      [] OTHER -> "nil"

\* orderService.Do, second half, and the rest of the operation: the answer
\* arrives and the call returns.
Answered(c, answer) ==
    /\ Alive
    /\ c \in pending
    /\ pending' = pending \ {c}
    /\ returned' = Append(returned, [call |-> c.call, op |-> c.op, pair |-> c.pair,
                                     quantity |-> c.quantity,
                                     err |-> ReturnedErr(c.op, answer)])
    /\ UNCHANGED submitted
    /\ UNCHANGED <<feedVars, streamVars, ctlVars>>

\* CreateOrderOCO and CreateOrderMarketQuote: panic("not implemented"), which
\* nothing recovers.
NotImplemented(op) ==
    /\ Alive
    /\ OrderCalls < MaxOrders
    /\ fault' = "panic: not implemented"
    /\ UNCHANGED <<feedVars, ctlVars, orderVars>>
    /\ UNCHANGED <<options, streamPair, ha, kind, ctxDone, cancelledAt, spc, lastOpen, attempt, waits, vpc,
                   vmsg, vnext, raws, signals, kpc, ticks, closed, delivered, errors>>

NotImplementedOps == {"CreateOrderOCO", "CreateOrderMarketQuote"}

OrderNext ==
    \/ \E pair \in Pairs, quantity \in Quantities :
          \/ CreateOrderLimit(pair, quantity)
          \/ CreateOrderMarket(pair, quantity)
          \/ CreateOrderStop(pair, quantity)
          \/ TakeProfit(pair, quantity)
          \/ CreateOrderTrailingStop(pair, quantity)
    \/ \E c \in pending, answer \in Answers : Answered(c, answer)
    \/ \E op \in NotImplementedOps : NotImplemented(op)

OrderSpec == FeedInit /\ [][OrderNext]_vars

\* ------------------------------------------------------ claims on the Feed
\* The subscription list of symbol s: the elements of its slice.
Registered(s) == ListOf(SubscriptionsBySymbol[s])

\* The calls of Subscribe on symbol s were made one after the other, as spec
\* 4.1 asks of the application: no two were in progress at the same time.
InSequence(s) == ~subInfo[s].overlap

\* The consumers of a subscription list, in list order.
ConsumersOf(subs) == [i \in 1..Len(subs) |-> subs[i].consumer]

\* The consumers invoked with order id by the dispatch tasks of pair s, in order.
InvokedWith(s, id) ==
    ConsumersOf(SelectSeq(invoked[s], LAMBDA e : e.order.ID = id))

IsPrefix(a, b) == Len(a) <= Len(b) /\ \A i \in 1..Len(a) : a[i] = b[i]

HandedOff(id) == \E c \in ChanIds : \E i \in 1..Len(handoff[c]) : handoff[c][i] = id

\* The order has been received and no dispatch task is still inside its loop.
Dispatched(id) ==
    /\ HandedOff(id)
    /\ \A r \in running \cup faulted : r.order.ID # id
    /\ \A h \in hung : h.task.order.ID # id

\* The statement of C1 for order id, S being its pair: the order is handed to
\* consumers by the dispatch goroutines of S only; the consumers invoked with
\* it are, in order and without repetition, the head of S's subscription
\* list; and once its dispatch is over they include every consumer whose
\* Subscribe call had returned before the Start that began S's dispatch.
FanOut(id) ==
    LET S == calls[id].Pair IN
    /\ \A s \in Symbols \ {S} : InvokedWith(s, id) = <<>>
    /\ IsPrefix(InvokedWith(S, id), ConsumersOf(Registered(S)))
    /\ Dispatched(id) => Len(InvokedWith(S, id)) >= startedWith[S]

\* C1 (fan-out): for every symbol S whose consumers were registered by a
\* sequence of Subscribe calls, every published order E with Pair = S reaches
\* each of the N consumers registered on S before Start exactly once, in
\* registration order.
C1_FanOut ==
    \A id \in 1..Len(calls) : InSequence(calls[id].Pair) => FanOut(id)

\* Two consumers registered one after the other before Start, one order
\* published and dispatched: both were invoked with it.
C1_InSequenceBothInvoked ==
    \E id \in 1..Len(calls) :
        /\ Dispatched(id)
        /\ InSequence(calls[id].Pair)
        /\ startedWith[calls[id].Pair] = 2
        /\ Len(InvokedWith(calls[id].Pair, id)) = 2

\* Outside C1, with two Subscribe calls on one symbol in progress at the same
\* time: both returned before Start, an order of the symbol was dispatched,
\* and one consumer only was invoked with it.
OverlapRegisteredNotInvoked ==
    \E id \in 1..Len(calls) :
        /\ Dispatched(id)
        /\ startedWith[calls[id].Pair] = 2
        /\ Len(InvokedWith(calls[id].Pair, id)) = 1

\* Position of order id in the hand-off order of channel c (0: not handed off).
HandoffPos(c, id) ==
    IF \E i \in 1..Len(handoff[c]) : handoff[c][i] = id
      THEN CHOOSE i \in 1..Len(handoff[c]) : handoff[c][i] = id
      ELSE 0

\* C2 (per-symbol ordering), as claimed: the invocations made for one symbol
\* follow the hand-off order of its channel, and while a dispatch of order k is
\* unfinished no consumer of the symbol has been invoked with a later order.
C2_PerSymbolOrdering ==
    \A s \in Symbols :
        LET c == OrderFeeds[s]
            log == invoked[s]
        IN  /\ \A i, j \in 1..Len(log) :
                 i < j => HandoffPos(c, log[i].order.ID) <= HandoffPos(c, log[j].order.ID)
            /\ \A r \in running : \A i \in 1..Len(log) :
                 r.pair = s => HandoffPos(c, log[i].order.ID) <= HandoffPos(c, r.order.ID)

\* The same statement for the runs in which Start was called once.
C2_OrderingSingleStart == starts <= 1 => C2_PerSymbolOrdering

\* C3 (isolation): a consumer is only ever invoked with an order whose Pair it
\* was passed to Subscribe with, so an order on A never reaches a consumer
\* registered only on B.
C3_Isolation ==
    \A s \in Symbols : \A i \in 1..Len(invoked[s]) :
        invoked[s][i].consumer \in subInfo[invoked[s][i].order.Pair].consumers

\* Orders on two symbols were dispatched, one symbol having a consumer that the
\* other does not have.
C3_Witness ==
    \E a, b \in Symbols :
        /\ a # b
        /\ invoked[a] # <<>> /\ invoked[b] # <<>>
        /\ \E k \in 1..Len(Registered(b)) :
             \A j \in 1..Len(Registered(a)) :
                Registered(a)[j].consumer # Registered(b)[k].consumer

\* C4 (drop when unregistered): a Publish call for a pair without a DataFeed
\* leaves no blocked sender behind, invokes nobody and changes neither map nor
\* any dispatch task; and the runtime ends the process for the use of a map
\* only while a call of Subscribe is in progress, so a Publish that overlaps
\* none returns without fault.
C4_DropUnregistered ==
    [][/\ (/\ Len(calls') = Len(calls) + 1
           /\ OrderFeeds[calls'[Len(calls')].Pair] = 0)
          => (/\ sending' = sending
              /\ fault' = "none"
              /\ UNCHANGED <<OrderFeeds, SubscriptionsBySymbol, backing, chanSeq,
                             waiting, running, handoff, invoked>>)
       /\ (fault = "none" /\ fault' \in {"concurrent map read and map write",
                                        "concurrent map iteration and map write",
                                        "concurrent map writes"})
          => subscribing # {}]_vars

\* An order was dropped after Start, while another symbol is being served, and
\* an order was dropped before any Start.
C4_Witness ==
    /\ starts > 0
    /\ \E s \in Symbols : waiting[s] # <<>>
    /\ \E id \in 1..Len(calls) :
         /\ OrderFeeds[calls[id].Pair] = 0
         /\ ~HandedOff(id)
         /\ \A m \in sending : m.order.ID # id

\* C12 (synchronous hand-off), as claimed: a Publish call that is still in its
\* send has not been received by any dispatch task, and once a consumer of a
\* pair never returns, no Publish made on that pair afterwards is ever received
\* (so none of them returns).
C12_SynchronousHandoff ==
    /\ \A m \in sending : ~HandedOff(m.order.ID)
    /\ \A h \in hung : \A id \in (h.at + 1)..Len(calls) :
          calls[id].Pair = h.task.pair => ~HandedOff(id)

\* The same statement for the runs in which Start was called once.
C12_HandoffSingleStart == starts <= 1 => C12_SynchronousHandoff

\* A consumer never returned and a later Publish on its pair is blocked.
C12_BlockedBehindHung ==
    \E h \in hung : \E m \in sending :
        m.order.Pair = h.task.pair /\ m.order.ID > h.at /\ starts = 1

\* The statement of C14 for symbol s in one step: its Data channel, once made,
\* is kept; it is made by a Subscribe call on s that found no subscription of
\* s; no other symbol has the same channel; and every parked or running
\* dispatch goroutine and every blocked Publish of s holds the channel the map
\* has for s.
ChannelStable(s) ==
    /\ OrderFeeds[s] # 0 => OrderFeeds'[s] = OrderFeeds[s]
    /\ (OrderFeeds[s] = 0 /\ OrderFeeds'[s] # 0) =>
          /\ \E c \in subscribing : c.pair = s /\ c.pc = "make"
          /\ Registered(s) = <<>>
    /\ \A t \in Symbols : (s # t /\ OrderFeeds'[s] # 0) => OrderFeeds'[s] # OrderFeeds'[t]
    /\ \A k \in 1..Len(waiting'[s]) : waiting'[s][k] = OrderFeeds'[s]
    /\ \A r \in running' : r.pair = s => r.feed = OrderFeeds'[s]
    /\ \A m \in sending' : m.order.Pair = s => m.feed = OrderFeeds'[s]

\* C14 (registry channel stability): in every step and for every symbol whose
\* Subscribe calls are made one after the other, the channel is made once, by
\* the symbol's first Subscribe, and no later Subscribe, Publish or Start
\* replaces it, so that dispatch goroutines and publishers use the same one.
C14_ChannelStability ==
    [][\A s \in Symbols : InSequence(s)' => ChannelStable(s)]_vars

\* Two Subscribe calls on a symbol returned one after the other, Start was
\* called twice, an order was received from the symbol's channel, and both
\* dispatch goroutines are parked on that channel.
C14_Witness ==
    \E s \in Symbols :
        /\ InSequence(s) /\ subInfo[s].done = 2
        /\ handoff[OrderFeeds[s]] # <<>>
        /\ Len(waiting[s]) = 2
        /\ \A k \in 1..2 : waiting[s][k] = OrderFeeds[s]

\* Outside C14, with two Subscribe calls on a new symbol in progress at the
\* same time: each made a DataFeed, and a Publish made in between is blocked
\* on the first, which the map no longer holds.
OverlapChannelReplaced ==
    \E m \in sending : m.feed # OrderFeeds[m.order.Pair]

\* The dispatch goroutines of pair s that exist: parked at the receive, inside
\* the inner loop, or inside a consumer that never returns.
TasksOf(s) ==
    Len(waiting[s]) + Cardinality({r \in running : r.pair = s})
                    + Cardinality({h \in hung : h.task.pair = s})

\* C18 (one dispatch task per symbol), as claimed: whatever calls of Subscribe
\* and Start were made, a symbol has at most one dispatch goroutine, and at most
\* one is inside a consumer of the symbol.
C18_OneTaskPerSymbol ==
    \A s \in Symbols :
        /\ TasksOf(s) <= 1
        /\ Cardinality({r \in running : r.pair = s}) <= 1

\* The same statement for the runs in which Start was called once.
C18_OneTaskSingleStart == starts <= 1 => C18_OneTaskPerSymbol

\* C20 (consumer fault is not isolated): when a consumer has panicked while
\* handling order E on pair S, the consumers invoked with E are exactly the
\* subscriptions up to the panicking one, that invocation is the last one made
\* on S, and no dispatch goroutine makes another invocation.
C20_FaultNotIsolated ==
    \A f \in faulted :
        /\ InvokedWith(f.pair, f.order.ID) = ConsumersOf(SubSeq(ListOf(f.subs), 1, f.i))
        /\ invoked[f.pair][Len(invoked[f.pair])] =
              [consumer |-> Element(f).consumer, order |-> f.order]
        /\ \A task \in running : ~ENABLED Invoke(task)

\* The first of two consumers panicked, and a later order of the same pair is
\* waiting in its Publish call.
C20_Witness ==
    \E f \in faulted :
        /\ f.i = 1 /\ f.subs.len = 2
        /\ \E m \in sending : m.order.Pair = f.pair /\ m.order.ID > f.order.ID

\* The statement of C21 for symbol s in one step: its list changes only by
\* the return of a Subscribe call on s, which puts its subscription at the end
\* and leaves the earlier entries, the other symbols, the dispatch goroutines,
\* the blocked senders and the logs as they are; its channel changes only by a
\* Subscribe call on s; the list is never shortened or reordered and the
\* channel never removed or replaced.
RegistryFrame(s) ==
    /\ Registered(s)' # Registered(s) =>
          /\ \E c \in subscribing \ subscribing' :
                /\ c.pair = s
                /\ Registered(s)' = Append(Registered(s), c.subscription)
          /\ \A t \in Symbols \ {s} :
                /\ Registered(t)' = Registered(t)
                /\ OrderFeeds'[t] = OrderFeeds[t]
          /\ UNCHANGED <<waiting, running, sending, calls, handoff, invoked, starts>>
    /\ OrderFeeds'[s] # OrderFeeds[s] =>
          /\ \E c \in subscribing : c.pair = s
          /\ UNCHANGED <<waiting, running, sending, calls, handoff, invoked, starts>>
    /\ IsPrefix(Registered(s), Registered(s)')
    /\ OrderFeeds[s] # 0 => OrderFeeds'[s] = OrderFeeds[s]

\* C21 (registry frame): for every symbol S whose Subscribe calls are made one
\* after the other, Subscribe(S, c) appends c at the end of S's list and
\* changes nothing else; Publish and Start never change the registry; no step
\* removes or reorders a subscription or removes a channel.
C21_RegistryFrame ==
    [][\A s \in Symbols : InSequence(s)' => RegistryFrame(s)]_vars

\* Four Subscribe calls on one symbol returned one after the other, the last
\* appending in place, and another symbol is registered.
C21_Witness ==
    \E s, t \in Symbols :
        /\ s # t
        /\ InSequence(s)
        /\ Len(Registered(s)) = 4 /\ Cap(SubscriptionsBySymbol[s]) = 4
        /\ Registered(t) # <<>>

\* Outside C21, with two Subscribe calls on one symbol in progress at the same
\* time: both have returned and the list has one entry.
OverlapLostSubscription ==
    \E s \in Symbols : subInfo[s].done = 2 /\ Len(Registered(s)) = 1

\* The same, with one DataFeed made: the list holds both subscriptions, the
\* one of the later call first.
OverlapReordered ==
    \E s \in Symbols :
        /\ chanSeq = 1 /\ subscribed = 2 /\ subscribing = {}
        /\ Len(Registered(s)) = 2
        /\ \E c1, c2 \in Consumers :
              c1 # c2 /\ ConsumersOf(Registered(s)) = <<c2, c1>>
              /\ subInfo[s].consumers = {c1, c2}

\* The same on a list of three in an array of four: both calls wrote the
\* fourth cell, and the list holds the subscription of one of them.
OverlapCellRewritten ==
    \E s \in Symbols :
        /\ subInfo[s].done = 5 /\ Len(Registered(s)) = 4
        /\ Cap(SubscriptionsBySymbol[s]) = 4

\* Publish call id was made for a symbol that had been subscribed by then.
PublishedAfterSubscribe(id) ==
    /\ calls[id].Pair \in Symbols
    /\ subInfo[calls[id].Pair].calls # -1
    /\ id > subInfo[calls[id].Pair].calls

\* The symbol was first subscribed after a Start call had returned, or no
\* Start call was ever made.
SubscribedWithoutStart(s) ==
    \/ subInfo[s].starts >= 1 /\ ~subInfo[s].open
    \/ starts = 0

\* No Start call has been made since the symbol was first subscribed, and none
\* was in progress then.
NoStartSince(s) == subInfo[s].starts = starts /\ ~subInfo[s].open

\* Publish call id is still in its send.
Blocked(id) == \E m \in sending : m.order.ID = id

\* C22 (Publish without a dispatch task), as claimed: a Publish for a symbol
\* that was first subscribed after a Start call, or with no Start call made
\* at all, is neither dropped nor delivered: it stays in its send.
C22_PublishNeverCompletes ==
    \A id \in 1..Len(calls) :
        (PublishedAfterSubscribe(id) /\ SubscribedWithoutStart(calls[id].Pair))
            => (Blocked(id) /\ ~HandedOff(id))

\* C22 as amended: as long as no Start call is made after the symbol's first
\* Subscribe, the symbol has no dispatch goroutine and every Publish for it is
\* neither dropped nor delivered but stays in its send; a controller that made
\* one has published no event since.
C22_BlockedUntilStart ==
    \A id \in 1..Len(calls) :
        (PublishedAfterSubscribe(id) /\ NoStartSince(calls[id].Pair)) =>
            /\ TasksOf(calls[id].Pair) = 0
            /\ Blocked(id) /\ ~HandedOff(id)
            /\ \A i \in 1..Len(forwarded) : forwarded[i].call = id => i = Len(forwarded)

\* A symbol first subscribed after Start: the controller is blocked in the
\* Publish of an event of that symbol, and the next event of the account
\* stream is waiting to be received.
C22_LateSymbolBlocked ==
    \E id \in 1..Len(calls) :
        /\ PublishedAfterSubscribe(id)
        /\ subInfo[calls[id].Pair].starts >= 1
        /\ NoStartSince(calls[id].Pair)
        /\ Blocked(id)
        /\ \E i \in 1..Len(forwarded) : forwarded[i].call = id
        /\ vpc = "event"

\* --------------------------------------- claims on the stream connections
Outputs == {"data", "err"}

\* Cancellation was requested while the loop was at its select (Streaming) or
\* asleep (Backoff).
CancelledInStreamingOrBackoff == ctxDone /\ cancelledAt \in {"select", "sleep"}

\* C5 (cancellation closes exactly once), as claimed: no output channel is
\* ever closed twice, and after such a cancellation the connection never
\* comes to a halt with an output channel still open: as long as one is open,
\* the loop, or the receive it is waiting for, can take a step.
C5_CancelClosesOnce ==
    /\ \A c \in Outputs : closed[c] <= 1
    /\ (CancelledInStreamingOrBackoff /\ \E c \in Outputs : closed[c] = 0)
          => ENABLED (LoopStep \/ RecvOpenError \/ RecvStreamError)

\* The same claim as a liveness property, for the fair specification: after
\* such a cancellation both output channels are eventually closed.
C5_EventuallyClosed ==
    CancelledInStreamingOrBackoff ~> (\A c \in Outputs : closed[c] = 1)

\* The part of C5 that needs no scheduling: at most one close per channel, and
\* a loop that has returned has closed both.
C5_AtMostOnce ==
    /\ \A c \in Outputs : closed[c] <= 1
    /\ spc = "returned" => \A c \in Outputs : closed[c] = 1

\* C6 (no delivery after close), as claimed: no goroutine is ever at a send on
\* an output channel that has been closed: not the message handler, not the
\* error handler, not the keep-alive goroutine.
C6_NoSendAfterClose ==
    /\ ~(vpc = "event" /\ closed["data"] > 0)
    /\ ~(vpc = "error" /\ closed["err"] > 0)
    /\ ~(kpc = "send" /\ closed["err"] > 0)

Closing == spc \in {"closeErr", "closeData", "returned"}

\* C7 (open failure is transient), as claimed: while the last open has failed
\* and no cancellation has been requested, the loop is not on its way out and
\* no output channel is closed.
C7_OpenFailureTransient ==
    (lastOpen = "fail" /\ ~ctxDone) => (~Closing /\ \A c \in Outputs : closed[c] = 0)

\* C8 (interruptible backoff), as claimed: once cancellation has been requested
\* while the loop was asleep in its backoff wait, the loop makes no further
\* call of the external open.
C8_NoOpenAfterCancel ==
    [][(ctxDone /\ cancelledAt = "sleep") => ~(spc = "serve" /\ spc' # "serve")]_vars

\* A raw message with a numeric field that does not parse.
Malformed(raw) ==
    /\ raw.event \in {"kline", "ORDER_TRADE_UPDATE"}
    /\ ParseFloat(raw.price).err \/ ParseFloat(raw.qty).err

\* The message handler has returned from message id.
Handled(id) ==
    id <= Len(raws) /\ ~(vpc \in {"fetch", "fetching", "event", "error"} /\ vmsg.id = id)

DecodeReports(id) == CopiesIn([tag |-> "decode", id |-> id], errors)

\* C9 (decode fault is fatal), as claimed: a malformed message that has been
\* handled was reported once on the error channel, was not forwarded, and no
\* later message of the stream has been forwarded.
C9_DecodeFaultFatal ==
    \A id \in 1..Len(raws) :
        (Malformed(raws[id]) /\ Handled(id)) =>
            /\ DecodeReports(id) = 1
            /\ \A i \in 1..Len(delivered) : delivered[i].id < id

\* The account stream reported a malformed order update, forwarded a later
\* order, and is still streaming with both channels open.
C9_ForwardedAfterFault ==
    /\ kind = "account"
    /\ spc = "select" /\ ~ctxDone /\ fault = "none"
    /\ \A c \in Outputs : closed[c] = 0
    /\ \E id \in 1..Len(raws) :
         /\ Malformed(raws[id]) /\ DecodeReports(id) = 1
         /\ \E i \in 1..Len(delivered) : delivered[i].id > id

Min(a, b) == IF a < b THEN a ELSE b

\* C10 (backoff growth): the waits since the last reset start at 100 ms, each
\* is the one before doubled and capped at 1 s, so they never decrease and lie
\* within [100 ms, 1 s]: 100, 200, 400, 800, 1000, 1000, ...
C10_BackoffGrowth ==
    /\ \A i \in 1..Len(waits) : waits[i] >= 100 /\ waits[i] <= 1000
    /\ Len(waits) >= 1 => waits[1] = 100
    /\ \A i \in 1..(Len(waits) - 1) :
         /\ waits[i + 1] = Min(2 * waits[i], 1000)
         /\ waits[i] <= waits[i + 1]
    /\ \A i \in 1..Min(Len(waits), 6) : waits[i] = <<100, 200, 400, 800, 1000, 1000>>[i]

\* Six consecutive waits, the fifth and the sixth capped.
C10_Witness ==
    Len(waits) >= 6 /\ waits[4] = 800 /\ waits[5] = 1000 /\ waits[6] = 1000

\* C11 (backoff reset), as claimed: the loop reaches its select only through a
\* successful open, so every wait it starts is the first wait after a
\* successful connection and is the minimum, 100 ms.
C11_ResetOnOpen ==
    [][(spc = "select" /\ spc' = "sleep") => waits'[Len(waits')] = 100]_vars

\* What the code does keep: a candle message resets the backoff, so the wait
\* after a connection that delivered a message is the minimum.
C11_ResetOnMessage ==
    [][(kind = "candle" /\ vpc = "read" /\ Len(raws') = Len(raws) + 1)
          => (attempt' = 0 /\ waits' = <<>>)]_vars

\* C15 (reconnect after stream termination): without cancellation the loop
\* leaves its select only when done has fired, and then for the sleep of one
\* backoff duration; it leaves the sleep only for the next open call; no
\* channel is closed at the select or in the sleep; and an event a handler is
\* sending leaves the handler only by being received.
C15_ReconnectAfterDone ==
    [][/\ (spc = "select" /\ spc' # "select" /\ ~ctxDone) =>
             /\ vpc = "done"
             /\ spc' = "sleep"
             /\ waits' = Append(waits, ForAttempt(attempt))
       /\ (spc = "sleep" /\ spc' # "sleep") => spc' = "serve"
       /\ spc \in {"select", "sleep"} =>
             (closed' = closed /\ \A c \in Outputs : closed[c] = 0)
       /\ (vpc = "event" /\ vpc' # "event") =>
             (vpc' = "read" /\ delivered' = Append(delivered, vmsg))]_vars

\* The account stream was re-opened after a wait and a handler of the new
\* connection is sending an order on the channel, which is open and not
\* cancelled.
C15_Witness ==
    /\ kind = "account" /\ ~ctxDone /\ fault = "none"
    /\ Len(waits) >= 1 /\ spc = "select" /\ lastOpen = "ok"
    /\ vpc = "event"
    /\ \A c \in Outputs : closed[c] = 0

\* C16 (error signals do not change state): the error handler's call and its
\* return leave the loop's position, the channels and the backoff as they
\* are; the handler returns only by its error being received from the error
\* channel; and after an error of a stream that goes on, the vendor goroutine
\* reads on.
C16_ErrorSignalFrame ==
    [][/\ (vpc = "read" /\ vpc' = "error" /\ vmsg'.tag = "stream") =>
             UNCHANGED <<spc, lastOpen, closed, attempt, waits>>
       /\ (vpc = "error" /\ vpc' # "error") =>
             /\ errors' = errors (+) SetToBag({[tag |-> vmsg.tag, id |-> vmsg.id]})
             /\ UNCHANGED <<spc, lastOpen, closed, attempt, waits>>
             /\ vpc' = vnext]_vars

\* An error signal was forwarded and the connection is streaming as before:
\* the vendor goroutine reads on, no wait was made, both channels are open.
C16_Witness ==
    /\ CopiesIn([tag |-> "stream", id |-> 0], errors) >= 1
    /\ spc = "select" /\ vpc = "read" /\ vnext = "read"
    /\ attempt = 0 /\ waits = <<>>
    /\ \A c \in Outputs : closed[c] = 0

\* -------------------------------------------- claims on the Feed Controller
\* The controller has received from the closed event channel.
ObservedClosure == \E i \in 1..Len(forwarded) : forwarded[i].event.id = 0

\* C13 (shutdown propagation), as claimed: a controller goroutine that has
\* observed the closure of the stream's channels has left its loop, and no
\* dispatch goroutine is left by then.
C13_ShutdownPropagation ==
    ObservedClosure => (cpc = "exited" /\ \A s \in Symbols : TasksOf(s) = 0)

\* What the code does instead: the number of dispatch goroutines of a symbol
\* never goes down, and the controller never leaves its loop.
C13_NobodyExits ==
    [][/\ \A s \in Symbols : TasksOf(s)' >= TasksOf(s)
       /\ cpc = "loop" => cpc' = "loop"]_vars

\* The orders the controller called Publish with, in call order.
ForwardedEvents == [i \in 1..Len(forwarded) |-> forwarded[i].event]

\* C17 (controller forwarding), as claimed: the orders the controller called
\* Publish with are exactly the orders received from the stream's event
\* channel, each once and in that order, also after the channels are closed.
C17_ForwardsExactly == ForwardedEvents = delivered

\* The part of C17 that holds: leaving aside the zero orders read from the
\* closed channel, the controller forwards each order once and in order.
C17_ForwardsWhileOpen == SelectSeq(ForwardedEvents, LAMBDA o : o.id # 0) = delivered

\* C19 (head-of-line blocking), as claimed: once a consumer of pair P never
\* returns, the first order of P the controller publishes afterwards is never
\* received by a dispatch goroutine, and it is the last order the controller
\* publishes, whatever its pair.
C19_HeadOfLine ==
    \A h \in hung : \A i \in 1..Len(forwarded) :
        LET c == forwarded[i].call IN
        (c > h.at /\ calls[c].Pair = h.task.pair) =>
            (~HandedOff(c) /\ i = Len(forwarded))

\* The same statement for the runs in which Start was called once.
C19_HeadOfLineSingleStart == starts <= 1 => C19_HeadOfLine

\* With one Start call, the controller is blocked in Publish behind a consumer
\* that never returned.
C19_BlockedController ==
    \E h \in hung : \E m \in sending :
        /\ m.order.ID = cmsg /\ cmsg > h.at /\ m.order.Pair = h.task.pair
        /\ starts = 1

\* C23 (AccountSubscription always returns), as claimed: a goroutine that
\* called AccountSubscription is never left in the send of the start-up error
\* with nothing able to take it: while it is in that send its select can be
\* reached, so that the error is observed on the returned channels.
C23_SubscriptionReturns == cpc = "startUserStream" => ENABLED ControllerStep

\* What the code does instead: once in the send of the start-up error the
\* goroutine never leaves it, no channel is ever read, and no stream is opened.
C23_StuckInStartup ==
    [][cpc = "startUserStream" =>
          (cpc' = "startUserStream" /\ UNCHANGED <<errors, delivered, forwarded, spc, kpc>>)]_vars

\* ------------------------------------- claims on the order-creating operations
\* The order-creating calls that sent no request or are waiting or returned.
OrderCallRecords ==
    pending \cup {[call |-> returned[i].call, op |-> returned[i].op,
                   pair |-> returned[i].pair, quantity |-> returned[i].quantity] :
                     i \in 1..Len(returned)}

\* The requests call c sent to the exchange.
RequestsOf(c) == {k \in 1..Len(submitted) : submitted[k].call = c.call}

\* Call c was given a positive quantity and an unknown pair or a quantity
\* outside the limits of the pair.
Invalid(c) == c.quantity > 0 /\ validate(c.pair, c.quantity) # "nil"

\* C24 (order validation before submission), as claimed: every order-creating
\* operation given a positive quantity with an unknown pair, or with a quantity
\* below MinQuantity or above MaxQuantity, sends no request to the exchange and
\* returns the error of validate.
C24_ValidatedBeforeSubmission ==
    /\ \A c \in OrderCallRecords : Invalid(c) => RequestsOf(c) = {}
    /\ \A i \in 1..Len(returned) :
          Invalid(returned[i]) =>
              returned[i].err = validate(returned[i].pair, returned[i].quantity)

\* What the code does: the claim holds of the four operations that call
\* validate; CreateOrderTrailingStop sends its request in every case.
C24_ValidatingOperations ==
    /\ \A c \in OrderCallRecords :
          /\ (Invalid(c) /\ c.op # "CreateOrderTrailingStop") => RequestsOf(c) = {}
          /\ c.op = "CreateOrderTrailingStop" => RequestsOf(c) # {}
    /\ \A i \in 1..Len(returned) :
          (Invalid(returned[i]) /\ returned[i].op # "CreateOrderTrailingStop") =>
              returned[i].err = validate(returned[i].pair, returned[i].quantity)

\* A trailing stop on an unknown pair reached the exchange and returned.
C24_UnvalidatedTrailingStop ==
    \E i \in 1..Len(returned) :
        /\ returned[i].op = "CreateOrderTrailingStop"
        /\ returned[i].pair \notin DOMAIN assetsInfo
        /\ RequestsOf(returned[i]) # {}

====
